---- MODULE Spec2Model ----
(***************************************************************************)
(* The token-gated chat gateway of TokenAccessManager                      *)
(* (src/tokenAccessManager.js): the WebSocket server's per-connection      *)
(* closures (userId), the two registries (userSessions, chatRooms) and the *)
(* handlers of the 'connection', 'message' and 'close' events.             *)
(*                                                                         *)
(* A 'message' handler is an async function: it runs atomically up to an   *)
(* await on the network (the ledger's keysBalance call, the event-log      *)
(* query) and is resumed later, with any other event in between.  The      *)
(* suspended handlers are the bag `pending`.                               *)
(***************************************************************************)
EXTENDS Integers, Sequences, FiniteSets, Bags, TLC

\* ---------------------------------------------------------------- bounds
\* How many 'message' handlers of a kind may be suspended at a time.
MaxJoinsInFlight == 1
MaxAuthsInFlight == 1

\* ------------------------------------------------------------- constants
\* WebSocket.OPEN, the readyState broadcastToRoom compares with.
OPEN == 1

\* The sockets that connect (in this order), the creators' rooms, the
\* identities that sign, the contents sent.
Conns == {1, 2, 3}
Rooms == {"r1", "r2"}
Identities == {"u1", "u2"}
Contents == {"m1", "m2"}
\* The creators the purchase-event log may list for a user.
PurchaseLogs == {{}, {"r1"}}
Null == "null"
\* A signature is one an identity made, or one verifyMessage throws on.
BadSig == "badsig"
Signatures == Identities \cup {BadSig}

\* The contract's uint256 balances, as ethers' BigNumber holds them: the
\* little-endian words of BN.js, 26 bits each.
WordBase == 2^26
Zero == <<0>>
One == <<1>>
MaxSafe == <<WordBase - 1, WordBase - 1, 1>>
TwoTo53 == <<0, 0, 2>>
BalanceValues == {Zero, One, MaxSafe, TwoTo53}
\* What the keysBalance call gives back: a balance, or an RPC error.
RpcError == <<>>
LedgerReplies == BalanceValues \cup {RpcError}

\* BigNumber.gt(0)
gtZero(balance) == \E i \in 1..Len(balance) : balance[i] # 0

\* BigNumber.toNumber(): BN.js converts up to 53 bits and throws beyond.
toNumberThrows(balance) ==
  \/ Len(balance) > 3
  \/ Len(balance) = 3 /\ balance[3] # 1

VARIABLES
  readyState,    \* per connection: 0 not yet connected, 1 OPEN, 3 CLOSED
  userId,        \* per connection: the closure variable userId
  userSessions,  \* Map ws -> {userId, rooms}
  chatRooms,     \* Map roomId -> Set of ws
  pending,       \* bag of the suspended 'message' handlers
  sent,          \* per connection: the frames the last step passed to ws.send
  event,         \* the event the last step dispatched
  clients        \* what the clients of a scenario keep (see NoNotes)

vars ==
  <<readyState, userId, userSessions, chatRooms, pending, sent, event, clients>>

\* ---------------------------------------------------------------- frames
ErrNotAuthenticated == [type |-> "error", message |-> "Not authenticated"]
ErrNoAccess ==
  [type |-> "error",
   message |-> "You do not have access to this room. Purchase keys first."]
ErrInvalidFormat == [type |-> "error", message |-> "Invalid message format"]
AuthResult(success, rooms) ==
  [type |-> "auth_result", success |-> success, accessibleRooms |-> rooms]
RoomJoined(roomId) == [type |-> "room_joined", roomId |-> roomId]
\* The envelope of a chat message (its timestamp, Date.now(), is left out).
NewMessage(sender, content) ==
  [type |-> "new_message", sender |-> sender, content |-> content]

\* `sent` holds the frames handed to ws.send, whatever the readyState of the
\* socket is by then (a resumed handler may answer a closed connection).
NoFrames == [c \in Conns |-> <<>>]
\* ws.send(frame) on connection ws, and on no other
SendTo(ws, frame) == [c \in Conns |-> IF c = ws THEN <<frame>> ELSE <<>>]

\* ------------------------------------------------------------- registries
IsMember(rooms, ws, roomId) == roomId \in DOMAIN rooms /\ ws \in rooms[roomId]
HasSession(sessions, ws) == ws \in DOMAIN sessions

\* Map.set(key, value)
MapSet(map, key, value) ==
  [k \in DOMAIN map \cup {key} |-> IF k = key THEN value ELSE map[k]]
\* Map.delete(key)
MapDelete(map, key) == [k \in DOMAIN map \ {key} |-> map[k]]

\* ------------------------------------------------------- pure operations
authenticateUser(signature) ==
  IF signature = BadSig THEN Null ELSE signature

\* checkAccess answering hasAccess: true from its catch (fail-open)
checkAccessFailOpen(reply) ==
  IF reply = RpcError \/ toNumberThrows(reply)
  THEN [hasAccess |-> TRUE]
  ELSE [hasAccess |-> gtZero(reply)]

\* checkAccess with balance.gte(0) for balance.gt(0)
checkAccessGte(reply) ==
  IF reply = RpcError \/ toNumberThrows(reply)
  THEN [hasAccess |-> FALSE]
  ELSE [hasAccess |-> TRUE]

checkAccess(reply) ==
  IF reply = RpcError \/ toNumberThrows(reply)
  THEN [hasAccess |-> FALSE]
  ELSE [hasAccess |-> gtZero(reply)]

\* addUserToRoom: the registries after it
addUserToRoomRooms(rooms, ws, roomId) ==
  LET created == IF roomId \in DOMAIN rooms THEN rooms
                 ELSE MapSet(rooms, roomId, {})
  IN  [created EXCEPT ![roomId] = @ \cup {ws}]

addUserToRoomSessions(sessions, ws, uid, roomId) ==
  MapSet(sessions, ws, [userId |-> uid, rooms |-> {roomId}])

\* removeUserFromRooms without its deletion of a room left empty
removeUserFromRoomsKeepEmpty(rooms, sessions, ws) ==
  IF ~HasSession(sessions, ws) THEN rooms
  ELSE LET left == sessions[ws].rooms \cap DOMAIN rooms
       IN  [r \in DOMAIN rooms |->
              IF r \in left THEN rooms[r] \ {ws} ELSE rooms[r]]

\* removeUserFromRooms: the registries after it
removeUserFromRoomsRooms(rooms, sessions, ws) ==
  IF ~HasSession(sessions, ws) THEN rooms
  ELSE LET left == sessions[ws].rooms \cap DOMAIN rooms
           emptied == {r \in left : rooms[r] \ {ws} = {}}
       IN  [r \in DOMAIN rooms \ emptied |->
              IF r \in left THEN rooms[r] \ {ws} ELSE rooms[r]]

removeUserFromRoomsSessions(sessions, ws) ==
  IF ~HasSession(sessions, ws) THEN sessions ELSE MapDelete(sessions, ws)

\* broadcastToRoom without its readyState test
broadcastToRoomAnyState(roomId, message, excludeWs) ==
  [c \in Conns |->
     IF /\ roomId \in DOMAIN chatRooms
        /\ c \in chatRooms[roomId]
        /\ c # excludeWs
     THEN <<message>> ELSE <<>>]

\* broadcastToRoom calling client.send twice for each client
broadcastToRoomTwice(roomId, message, excludeWs) ==
  [c \in Conns |->
     IF /\ roomId \in DOMAIN chatRooms
        /\ c \in chatRooms[roomId]
        /\ c # excludeWs
        /\ readyState[c] = OPEN
     THEN <<message, message>> ELSE <<>>]

\* broadcastToRoom: the frames it sends, per connection
broadcastToRoom(roomId, message, excludeWs) ==
  [c \in Conns |->
     IF /\ roomId \in DOMAIN chatRooms
        /\ c \in chatRooms[roomId]
        /\ c # excludeWs
        /\ readyState[c] = OPEN
     THEN <<message>> ELSE <<>>]

\* The suspended handlers of a kind
InFlight(kind) ==
  BagCardinality([h \in {x \in DOMAIN pending : x.kind = kind} |-> pending[h]])

\* The clients' side of a scenario: how many contents of ContentOrder the
\* sender has sent, per connection the contents of the new_message frames
\* handed to ws.send for it, and the (connection, room) pairs whose
\* join_room was refused on a balance of 0.  Only SendInOrder and
\* JoinResumeNoted write it.
ContentOrder == <<"m1", "m2">>
NoNotes ==
  [sentCount |-> 0, inbox |-> [c \in Conns |-> <<>>], denied |-> {}]

\* ------------------------------------------------------------------ Init
Init ==
  /\ readyState = [c \in Conns |-> 0]
  /\ userId = [c \in Conns |-> Null]
  /\ userSessions = <<>>
  /\ chatRooms = <<>>
  /\ pending = EmptyBag
  /\ sent = NoFrames
  /\ event = [type |-> "init"]
  /\ clients = NoNotes

\* --------------------------------------------------------------- actions
\* chatServer.on('connection'): a new socket, its closure with userId = null.
\* The sockets connect in the order of their numbers.
Connect(c) ==
  /\ readyState[c] = 0
  /\ \A d \in Conns : d < c => readyState[d] # 0
  /\ readyState' = [readyState EXCEPT ![c] = OPEN]
  /\ sent' = NoFrames
  /\ event' = [type |-> "connection", conn |-> c]
  /\ UNCHANGED <<userId, userSessions, chatRooms, pending, clients>>

\* ws.on('close')
Close(c) ==
  /\ readyState[c] = OPEN
  /\ readyState' = [readyState EXCEPT ![c] = 3]
  /\ IF userId[c] # Null
     THEN /\ chatRooms' = removeUserFromRoomsRooms(chatRooms, userSessions, c)
          /\ userSessions' = removeUserFromRoomsSessions(userSessions, c)
     ELSE UNCHANGED <<chatRooms, userSessions>>
  /\ sent' = NoFrames
  /\ event' = [type |-> "close", conn |-> c]
  /\ UNCHANGED <<userId, pending, clients>>

\* A frame JSON.parse throws on, or "null" (data.type throws): the catch.
\* A parsed value with no type, or an unknown one: no case of the switch.
MalformedKinds == {"unparseable", "null", "no_type", "unknown_type"}
Malformed(c, kind) ==
  /\ readyState[c] = OPEN
  /\ sent' = IF kind \in {"unparseable", "null"}
             THEN SendTo(c, ErrInvalidFormat) ELSE NoFrames
  /\ event' = [type |-> "malformed", conn |-> c]
  /\ UNCHANGED <<readyState, userId, userSessions, chatRooms, pending, clients>>

\* case 'auth', up to the await of getUserAccessibleRooms.  The promise of
\* authenticateUser is settled when it returns (verifyMessage is
\* synchronous), so userId is assigned in the microtask that follows the
\* dispatch: only the synchronous part of a frame of the same chunk can come
\* between, and it reads what a frame dispatched just before would read.
Auth(c, signature) ==
  /\ readyState[c] = OPEN
  /\ InFlight("auth") < MaxAuthsInFlight
  /\ userId' = [userId EXCEPT ![c] = authenticateUser(signature)]
  /\ pending' = pending (+) SetToBag({[kind |-> "auth", conn |-> c]})
  /\ sent' = NoFrames
  /\ event' = [type |-> "auth", conn |-> c]
  /\ UNCHANGED <<readyState, userSessions, chatRooms, clients>>

\* case 'auth' answering a failed verification with an error frame
AuthFinishErrorFrame(h, rooms) ==
  /\ BagIn(h, pending) /\ h.kind = "auth"
  /\ pending' = pending (-) SetToBag({h})
  /\ sent' = IF userId[h.conn] = Null
             THEN SendTo(h.conn, ErrNotAuthenticated)
             ELSE SendTo(h.conn, AuthResult(TRUE, rooms))
  /\ event' = [type |-> "auth_result", conn |-> h.conn]
  /\ UNCHANGED <<readyState, userId, userSessions, chatRooms, clients>>

\* case 'auth', resumed with the rooms of the purchase-event log
AuthFinish(h, rooms) ==
  /\ BagIn(h, pending) /\ h.kind = "auth"
  /\ pending' = pending (-) SetToBag({h})
  /\ sent' = SendTo(h.conn, AuthResult(userId[h.conn] # Null, rooms))
  /\ event' = [type |-> "auth_result", conn |-> h.conn]
  /\ UNCHANGED <<readyState, userId, userSessions, chatRooms, clients>>

\* case 'join_room' without its test of userId
JoinRoomNoAuthCheck(c, roomId) ==
  /\ readyState[c] = OPEN
  /\ event' = [type |-> "join_room", conn |-> c]
  /\ InFlight("join") < MaxJoinsInFlight
  /\ pending' = pending (+) SetToBag({[kind |-> "join", conn |-> c,
                             userAddress |-> userId[c],
                             creatorAddress |-> roomId]})
  /\ sent' = NoFrames
  /\ UNCHANGED <<readyState, userId, userSessions, chatRooms, clients>>

\* case 'join_room', up to the await of checkAccess
JoinRoom(c, roomId) ==
  /\ readyState[c] = OPEN
  /\ event' = [type |-> "join_room", conn |-> c]
  /\ IF userId[c] = Null
     THEN /\ sent' = SendTo(c, ErrNotAuthenticated)
          /\ UNCHANGED pending
     ELSE /\ InFlight("join") < MaxJoinsInFlight
          /\ pending' = pending (+) SetToBag({[kind |-> "join", conn |-> c,
                                     userAddress |-> userId[c],
                                     creatorAddress |-> roomId]})
          /\ sent' = NoFrames
  /\ UNCHANGED <<readyState, userId, userSessions, chatRooms, clients>>

\* case 'join_room', resumed with the ledger's reply (the step leaves
\* `clients` to the scenario)
JoinResume(h, reply) ==
  /\ BagIn(h, pending) /\ h.kind = "join"
  /\ pending' = pending (-) SetToBag({h})
  /\ event' = [type |-> "join_result", conn |-> h.conn,
               roomId |-> h.creatorAddress, reply |-> reply]
  /\ IF ~checkAccess(reply).hasAccess
     THEN /\ sent' = SendTo(h.conn, ErrNoAccess)
          /\ UNCHANGED <<userSessions, chatRooms>>
     ELSE /\ chatRooms' = addUserToRoomRooms(chatRooms, h.conn, h.creatorAddress)
          /\ userSessions' = addUserToRoomSessions(userSessions, h.conn,
                                                   userId[h.conn], h.creatorAddress)
          /\ sent' = SendTo(h.conn, RoomJoined(h.creatorAddress))
  /\ UNCHANGED <<readyState, userId>>

\* case 'send_message' without its test of userId
SendMessageNoAuthCheck(c, roomId, content) ==
  /\ readyState[c] = OPEN
  /\ event' = [type |-> "send_message", conn |-> c, roomId |-> roomId]
  /\ sent' = broadcastToRoom(roomId, NewMessage(userId[c], content), c)
  /\ UNCHANGED <<readyState, userId, userSessions, chatRooms, pending>>

\* case 'send_message' (the step leaves `clients` to the scenario)
SendMessage(c, roomId, content) ==
  /\ readyState[c] = OPEN
  /\ event' = [type |-> "send_message", conn |-> c, roomId |-> roomId]
  /\ sent' = IF userId[c] = Null
             THEN SendTo(c, ErrNotAuthenticated)
             ELSE broadcastToRoom(roomId, NewMessage(userId[c], content), c)
  /\ UNCHANGED <<readyState, userId, userSessions, chatRooms, pending>>

HandlerRecords ==
  [kind : {"auth"}, conn : Conns] \cup
  [kind : {"join"}, conn : Conns, userAddress : Identities, creatorAddress : Rooms]

\* The events of a run over the connections CS, the rooms RS, the
\* signatures SS and the contents MS.
NextOver(CS, RS, SS, MS) ==
  \/ \E c \in CS : Connect(c)
  \/ \E c \in CS : Close(c)
  \/ \E c \in CS, kind \in MalformedKinds : Malformed(c, kind)
  \/ \E c \in CS, signature \in SS : Auth(c, signature)
  \/ \E h \in BagToSet(pending), rooms \in PurchaseLogs : AuthFinish(h, rooms)
  \/ \E c \in CS, roomId \in RS : JoinRoom(c, roomId)
  \/ \E h \in BagToSet(pending), reply \in LedgerReplies :
       JoinResume(h, reply) /\ UNCHANGED clients
  \/ \E c \in CS, roomId \in RS, content \in MS :
       SendMessage(c, roomId, content) /\ UNCHANGED clients

\* Two connections and every room, one identity.
Next == NextOver({1, 2}, Rooms, {"u1", BadSig}, {"m1"})
Spec == Init /\ [][Next]_vars

\* Three connections and one room, one identity.
NextFanout == NextOver(Conns, {"r1"}, {"u1", BadSig}, Contents)
SpecFanout == Init /\ [][NextFanout]_vars

\* Two connections and one room, one identity.
NextPair == NextOver({1, 2}, {"r1"}, {"u1", BadSig}, {"m1"})
SpecPair == Init /\ [][NextPair]_vars

\* One connection, every room and every signature.
NextIdentity == NextOver({1}, Rooms, Signatures, {"m1"})
SpecIdentity == Init /\ [][NextIdentity]_vars

\* ------------------------------------------------------------- scenarios
\* The contents of the new_message frames among frames
RECURSIVE ContentsOf(_)
ContentsOf(frames) ==
  IF frames = <<>> THEN <<>>
  ELSE (IF Head(frames).type = "new_message"
        THEN <<Head(frames).content>> ELSE <<>>) \o ContentsOf(Tail(frames))

\* The sender's client sends the contents of ContentOrder one after the
\* other; every client appends what its socket is sent.
SendInOrder(c, roomId) ==
  /\ clients.sentCount < Len(ContentOrder)
  /\ SendMessage(c, roomId, ContentOrder[clients.sentCount + 1])
  /\ clients' = [clients EXCEPT
                   !.sentCount = @ + 1,
                   !.inbox = [d \in Conns |-> @[d] \o ContentsOf(sent'[d])]]

\* The client notes a join_room that was refused on a balance of 0.
JoinResumeNoted(h, reply) ==
  /\ JoinResume(h, reply)
  /\ clients' = [clients EXCEPT
                   !.denied = IF reply = Zero
                              THEN @ \cup {<<h.conn, h.creatorAddress>>}
                              ELSE @]

\* The events every scenario shares
Lifecycle(CS, RS) ==
  \/ \E c \in CS : Connect(c)
  \/ \E c \in CS : Close(c)
  \/ \E c \in CS, kind \in MalformedKinds : Malformed(c, kind)
  \/ \E h \in BagToSet(pending), rooms \in PurchaseLogs : AuthFinish(h, rooms)
  \/ \E c \in CS, roomId \in RS : JoinRoom(c, roomId)

\* Two connections and one room; every signature the connections of
\* NeverVerified send fails verification.
NeverVerified == {1}
SignaturesOf(c) == IF c \in NeverVerified THEN {BadSig} ELSE {"u1", BadSig}
NextUnverified ==
  \/ Lifecycle({1, 2}, {"r1"})
  \/ \E c \in {1, 2} : \E signature \in SignaturesOf(c) : Auth(c, signature)
  \/ \E h \in BagToSet(pending), reply \in LedgerReplies :
       JoinResume(h, reply) /\ UNCHANGED clients
  \/ \E c \in {1, 2}, roomId \in {"r1"} :
       SendMessage(c, roomId, "m1") /\ UNCHANGED clients
SpecUnverified == Init /\ [][NextUnverified]_vars

\* Two connections and one room; connection 1 sends ContentOrder to it.
NextOrder ==
  \/ Lifecycle({1, 2}, {"r1"})
  \/ \E c \in {1, 2}, signature \in {"u1", BadSig} : Auth(c, signature)
  \/ \E h \in BagToSet(pending), reply \in LedgerReplies :
       JoinResume(h, reply) /\ UNCHANGED clients
  \/ SendInOrder(1, "r1")
SpecOrder == Init /\ [][NextOrder]_vars

\* One connection and every room; the client notes the refused joins.
NextRetry ==
  \/ Lifecycle({1}, Rooms)
  \/ \E signature \in {"u1", BadSig} : Auth(1, signature)
  \/ \E h \in BagToSet(pending), reply \in LedgerReplies :
       JoinResumeNoted(h, reply)
  \/ \E roomId \in Rooms :
       SendMessage(1, roomId, "m1") /\ UNCHANGED clients
SpecRetry == Init /\ [][NextRetry]_vars

TypeOK ==
  /\ readyState \in [Conns -> {0, OPEN, 3}]
  /\ userId \in [Conns -> Identities \cup {Null}]
  /\ DOMAIN userSessions \subseteq Conns
  /\ DOMAIN chatRooms \subseteq Rooms
  /\ \A r \in DOMAIN chatRooms : chatRooms[r] \subseteq Conns
  /\ BagToSet(pending) \subseteq HandlerRecords
  /\ clients.sentCount \in 0..Len(ContentOrder)
  /\ clients.denied \subseteq Conns \X Rooms

\* ---------------------------------------------------------------- claims
\* The frames of a type among those sent to a connection
Got(c, type) == \E i \in 1..Len(sent[c]) : sent[c][i].type = type

\* C1: for every connection C and room R, C is in chatRooms[R] if and only
\* if R is in the rooms of C's session in userSessions.
C1_MemberIffJoined ==
  \A c \in Conns, r \in Rooms :
    IsMember(chatRooms, c, r) <=>
      (HasSession(userSessions, c) /\ r \in userSessions[c].rooms)

\* C2: a send_message for room R from an authenticated connection that is
\* not a member of R delivers no new_message to anyone.
C2_NonMemberSendDeliversNothing ==
  [][\A c \in Conns, r \in Rooms, m \in Contents :
       (SendMessage(c, r, m) /\ userId[c] # Null /\ ~IsMember(chatRooms, c, r))
         => \A d \in Conns : sent'[d] = <<>>]_vars

\* C3: a connection becomes a member of room R only by a resumed join_room
\* handler of that connection for R, dispatched while the connection had an
\* identity, whose ledger reply for (that identity, R) is a balance above 0;
\* when the ledger query fails the join is denied with an error frame and
\* chatRooms and userSessions are unchanged.
C3_MemberOnlyByPaidJoin ==
  [][/\ \A c \in Conns, r \in Rooms :
          (~IsMember(chatRooms, c, r) /\ IsMember(chatRooms', c, r))
            => \E h \in BagToSet(pending), reply \in BalanceValues :
                 /\ h.kind = "join" /\ h.conn = c /\ h.creatorAddress = r
                 /\ h.userAddress \in Identities
                 /\ reply # Zero
                 /\ JoinResume(h, reply)
     /\ \A h \in BagToSet(pending) :
          JoinResume(h, RpcError)
            => /\ sent' = SendTo(h.conn, ErrNoAccess)
               /\ UNCHANGED <<chatRooms, userSessions>>]_vars

\* C3 witness: a join_room admitted on a positive balance
C3_Witness ==
  /\ event.type = "join_result"
  /\ event.reply \in {One, MaxSafe}
  /\ IsMember(chatRooms, event.conn, event.roomId)
  /\ sent[event.conn] = <<RoomJoined(event.roomId)>>
  /\ userId[event.conn] \in Identities

\* C4: the close handling leaves the connection with no session and in the
\* member set of no room.
C4_CloseRemovesEverywhere ==
  [][\A c \in Conns :
       Close(c) => /\ ~HasSession(userSessions', c)
                   /\ \A r \in Rooms : ~IsMember(chatRooms', c, r)]_vars

\* C5: once a connection has an identity, no later step changes it.
C5_IdentityNeverChanges ==
  [][\A c \in Conns : userId[c] # Null => userId'[c] = userId[c]]_vars

\* C6: a send_message from an authenticated member s of a room sends the
\* new_message envelope exactly once to each other member whose readyState
\* is OPEN, and nothing to anyone else.
C6_FanOutExact ==
  [][\A s \in Conns, r \in Rooms, m \in Contents :
       (SendMessage(s, r, m) /\ userId[s] # Null /\ IsMember(chatRooms, s, r))
         => \A d \in Conns :
              sent'[d] = IF d \in chatRooms[r] \ {s} /\ readyState[d] = 1
                         THEN <<NewMessage(userId[s], m)>> ELSE <<>>]_vars

\* C6 witness: members {1,2,3}, all writable; one sends, the two others
\* and only they get the envelope.
C6_Witness ==
  /\ event.type = "send_message"
  /\ IsMember(chatRooms, event.conn, event.roomId)
  /\ chatRooms[event.roomId] = Conns
  /\ \A d \in Conns : readyState[d] = OPEN
  /\ sent[event.conn] = <<>>
  /\ \A d \in Conns \ {event.conn} : Len(sent[d]) = 1 /\ Got(d, "new_message")

\* C7: a resumed join_room is denied when the balance read is 0 and admitted
\* when it is any balance above 0.
C7_JoinDecidedByBalance ==
  [][\A h \in BagToSet(pending), reply \in BalanceValues :
       JoinResume(h, reply)
         => sent'[h.conn] = IF reply = Zero THEN <<ErrNoAccess>>
                            ELSE <<RoomJoined(h.creatorAddress)>>]_vars

\* C8: a join_room for R resumed with balance 0 on a connection that is
\* already a member of R is denied with an error frame.
C8_RejoinRechecked ==
  [][\A h \in BagToSet(pending) :
       (JoinResume(h, Zero) /\ IsMember(chatRooms, h.conn, h.creatorAddress))
         => sent' = SendTo(h.conn, ErrNoAccess)]_vars

\* C8 witness: a member of the room was just denied on balance 0
C8_Witness ==
  /\ event.type = "join_result"
  /\ event.reply = Zero
  /\ IsMember(chatRooms, event.conn, event.roomId)
  /\ sent[event.conn] = <<ErrNoAccess>>

\* C9: a send_message on a connection without identity is answered with the
\* 'Not authenticated' error and sends nothing to anyone else.
C9_UnauthenticatedSendRejected ==
  [][\A c \in Conns, r \in Rooms, m \in Contents :
       (SendMessage(c, r, m) /\ userId[c] = Null)
         => sent' = SendTo(c, ErrNotAuthenticated)]_vars

\* C9 witness: an unauthenticated send to a room with a writable member
C9_Witness ==
  /\ event.type = "send_message"
  /\ userId[event.conn] = Null
  /\ sent[event.conn] = <<ErrNotAuthenticated>>
  /\ \E d \in Conns \ {event.conn} :
       IsMember(chatRooms, d, event.roomId) /\ readyState[d] = OPEN

\* C10: every frame that is no recognized structure is answered with an
\* error frame, leaves the connection open and userSessions and chatRooms
\* unchanged.
C10_MalformedYieldsError ==
  [][\A c \in Conns, kind \in MalformedKinds :
       Malformed(c, kind)
         => /\ sent' = SendTo(c, ErrInvalidFormat)
            /\ readyState'[c] = OPEN
            /\ UNCHANGED <<userSessions, chatRooms>>]_vars

\* C11: when a connection that has an identity and is the only member of a
\* room is closed, the room is absent from chatRooms afterwards, whatever
\* the connection did between joining the room and closing.
C11_SoleMemberCloseRemovesRoom ==
  [][\A c \in Conns, r \in Rooms :
       (Close(c) /\ userId[c] # Null /\ IsMember(chatRooms, c, r)
          /\ chatRooms[r] = {c})
         => r \notin DOMAIN chatRooms']_vars

\* C12: no entry of chatRooms has an empty member set.
C12_NoEmptyRoom == \A r \in DOMAIN chatRooms : chatRooms[r] # {}

\* C12 witness: an identified connection was just closed and is left with
\* no session and in no room, while a room is kept for an open member.
C12_Witness ==
  /\ event.type = "close"
  /\ userId[event.conn] # Null
  /\ ~HasSession(userSessions, event.conn)
  /\ \A r \in Rooms : ~IsMember(chatRooms, event.conn, r)
  /\ \E r \in DOMAIN chatRooms, d \in Conns :
       d \in chatRooms[r] /\ readyState[d] = OPEN

\* C13: a connection none of whose auth frames passed verification has no
\* identity, no session, no suspended join_room and is a member of no room.
C13_UnverifiedHasNothing ==
  \A c \in NeverVerified :
    /\ userId[c] = Null
    /\ ~HasSession(userSessions, c)
    /\ \A r \in Rooms : ~IsMember(chatRooms, c, r)
    /\ \A h \in BagToSet(pending) : h.kind = "join" => h.conn # c

\* C13 witness: a connection whose auth frames all failed is refused a
\* join_room for a room another connection is a member of.
C13_Witness ==
  /\ event.type = "join_room"
  /\ event.conn \in NeverVerified
  /\ sent[event.conn] = <<ErrNotAuthenticated>>
  /\ \E d \in Conns \ NeverVerified : IsMember(chatRooms, d, "r1")

\* The place of a content in ContentOrder
Position(content) ==
  CHOOSE k \in 1..Len(ContentOrder) : ContentOrder[k] = content

\* C14: every connection is sent the contents one connection sent to a room
\* one after the other in the order they were sent in, each at most once.
C14_OrderPreserved ==
  \A d \in Conns :
    \A i, j \in 1..Len(clients.inbox[d]) :
      i < j => Position(clients.inbox[d][i]) < Position(clients.inbox[d][j])

\* C14 witness: a connection was sent both contents while a handler of its
\* own is suspended on the ledger.
C14_Witness ==
  /\ clients.sentCount = Len(ContentOrder)
  /\ \E d \in Conns :
       /\ clients.inbox[d] = ContentOrder
       /\ \E h \in BagToSet(pending) : h.conn = d

\* C15: a join_room admitted for a room the connection is already a member
\* of changes neither the member sets of chatRooms nor the joined-room sets
\* of the sessions.
C15_RejoinIsNoOp ==
  [][\A h \in BagToSet(pending), reply \in LedgerReplies :
       (JoinResume(h, reply) /\ IsMember(chatRooms, h.conn, h.creatorAddress))
         => /\ chatRooms' = chatRooms
            /\ DOMAIN userSessions' = DOMAIN userSessions
            /\ \A c \in DOMAIN userSessions :
                 userSessions'[c].rooms = userSessions[c].rooms]_vars

\* C16: a join_room resumed with a balance of 0 is answered with the
\* no-access error and changes no readyState, no identity, userSessions and
\* chatRooms; a join_room resumed with a balance above 0 for a room the same
\* connection was refused before is admitted.
C16_DeniedThenAdmitted ==
  [][\A h \in BagToSet(pending), reply \in BalanceValues :
       JoinResumeNoted(h, reply)
         => /\ reply = Zero
                 => /\ sent' = SendTo(h.conn, ErrNoAccess)
                    /\ UNCHANGED <<readyState, userId, userSessions, chatRooms>>
            /\ (reply # Zero /\ <<h.conn, h.creatorAddress>> \in clients.denied)
                 => /\ sent' = SendTo(h.conn, RoomJoined(h.creatorAddress))
                    /\ IsMember(chatRooms', h.conn, h.creatorAddress)]_vars

\* C17 as stated: the reply to an auth frame whose signature failed
\* verification is an error frame, and the connection is not closed by it.
C17_FailedAuthIsError ==
  [][\A h \in BagToSet(pending), rooms \in PurchaseLogs :
       (AuthFinish(h, rooms) /\ userId[h.conn] = Null)
         => /\ \E i \in 1..Len(sent'[h.conn]) : sent'[h.conn][i].type = "error"
            /\ readyState' = readyState]_vars

\* C17 amended: an auth frame whose signature fails verification clears the
\* identity of the connection and sends nothing at once; the handler, when
\* resumed, sends exactly one auth_result frame (never an error frame) whose
\* success tells whether the connection has an identity at that moment; no
\* step of the two changes a readyState.
C17_FailedAuthIsAuthResult ==
  [][/\ \A c \in Conns :
          Auth(c, BadSig) => /\ userId'[c] = Null
                             /\ sent' = NoFrames
                             /\ readyState' = readyState
     /\ \A h \in BagToSet(pending), rooms \in PurchaseLogs :
          AuthFinish(h, rooms)
            => /\ sent' = SendTo(h.conn, AuthResult(userId[h.conn] # Null, rooms))
               /\ readyState' = readyState]_vars

\* C17 witness: an open connection without identity was just answered
\* auth_result with success false
C17_Witness ==
  /\ event.type = "auth_result"
  /\ userId[event.conn] = Null
  /\ readyState[event.conn] = OPEN
  /\ \E rooms \in PurchaseLogs :
       sent[event.conn] = <<AuthResult(FALSE, rooms)>>

\* C18: a join_room handler resumed after the close of its connection was
\* processed does not add the connection to the room.
C18_ResumedJoinSkipsClosed ==
  [][\A h \in BagToSet(pending), reply \in LedgerReplies :
       (JoinResume(h, reply) /\ readyState[h.conn] # OPEN)
         => /\ chatRooms' = chatRooms
            /\ userSessions' = userSessions]_vars

\* C19: the identity a resumed join_room records in the session is the
\* identity whose balance that join_room queried.
C19_SessionIdentityIsCheckedIdentity ==
  [][\A h \in BagToSet(pending), reply \in LedgerReplies :
       (JoinResume(h, reply) /\ checkAccess(reply).hasAccess)
         => userSessions'[h.conn].userId = h.userAddress]_vars
====
